---- MODULE Spec2Model ----
(***************************************************************************)
(* A model of the 16-bit register machine of src/main.c: the memory with   *)
(* its masked byte accessors, the instruction codec, the program builder,  *)
(* and cpu_step with one action per opcode.                                *)
(*                                                                         *)
(* Widths.  regs[] are uint16_t (0..65535), flags is a uint8_t, pc and sp  *)
(* are uint32_t.  A uint32_t is kept as the pair of its 16-bit halves      *)
(* [hi, lo], so that arithmetic modulo 2^32 is exact.                      *)
(***************************************************************************)
EXTENDS Integers, Sequences, FiniteSets, TLC

VARIABLES regs, pc, sp, flags, mem, halted,   \* struct CPU
          crashed,   \* the process died on an access outside cpu->mem
          steps,     \* instructions executed so far
          idle,      \* cpu_step calls that returned at once (machine halted)
          last,      \* the instruction executed last: where it was fetched, its word, sp and regs before it
          out,       \* what the last instruction printed or scanned
          acc,       \* the indices into cpu->mem[] the last instruction used
          prog       \* the program loaded before the run

vars == <<regs, pc, sp, flags, mem, halted, crashed, steps, idle, last, out, acc, prog>>

(***************************************************************************)
(* Program constants                                                       *)
(***************************************************************************)
MEMORY_SIZE == 1048576
ADDR_MASK == 1048575

FLAG_ZERO == 1
FLAG_SIGN == 2
FLAG_CARRY == 4
FLAG_OVERFLOW == 8

NUMS_R == 8

OP_HALT == 0
OP_NOP == 1
OP_MOV == 2
OP_MOVI == 3
OP_CMP == 4
OP_JMP == 5
OP_JZ == 6
OP_JNZ == 7
OP_PUSH == 8
OP_POP == 9
OP_CALL == 10
OP_STDOUT == 11
OP_STDIN == 12
OP_EXT == 13

EXT_RET == 0
EXT_LOAD == 1
EXT_STORE == 2
EXT_ADD == 3
EXT_SUB == 4
EXT_AND == 5
EXT_OR == 6
EXT_XOR == 7

(***************************************************************************)
(* Bounds of the model                                                     *)
(***************************************************************************)
\* instructions one run executes at most
MaxSteps == 12
\* cpu_step calls on a halted machine that are explored
MaxIdle == 2
\* largest initial counter of the counted loop
MaxCount == 3
\* bytes a string scan may find before a NUL once it has left cpu->mem
MaxBeyond == 1

(***************************************************************************)
(* Fixed-width arithmetic                                                  *)
(***************************************************************************)
W16 == 65536

RECURSIVE AndN(_, _, _)
\* a & b on n bits
AndN(a, b, n) ==
    IF n = 0 THEN 0
    ELSE (a % 2) * (b % 2) + 2 * AndN(a \div 2, b \div 2, n - 1)

RECURSIVE OrN(_, _, _)
\* a | b on n bits
OrN(a, b, n) ==
    IF n = 0 THEN 0
    ELSE (IF (a % 2) + (b % 2) > 0 THEN 1 ELSE 0) + 2 * OrN(a \div 2, b \div 2, n - 1)

RECURSIVE XorN(_, _, _)
\* a ^ b on n bits
XorN(a, b, n) ==
    IF n = 0 THEN 0
    ELSE (((a % 2) + (b % 2)) % 2) + 2 * XorN(a \div 2, b \div 2, n - 1)

\* the uint32_t of a number below 2^31
U32(n) == [hi |-> (n \div W16) % W16, lo |-> n % W16]

\* x + n in uint32_t, 0 <= n < 2^30
Add32(x, n) ==
    LET s == x.lo + n
    IN  [hi |-> (x.hi + (s \div W16)) % W16, lo |-> s % W16]

\* x - n in uint32_t, 0 <= n < 2^16
Sub32(x, n) ==
    LET d == x.lo - n
    IN  [hi |-> (x.hi + (d \div W16)) % W16, lo |-> d % W16]

\* x & ADDR_MASK, a number in 0 .. 2^20 - 1
Mask20(x) == (x.hi % ((ADDR_MASK + 1) \div W16)) * W16 + x.lo

\* whether mem + x points into the MEMORY_SIZE bytes of cpu->mem
InArray(x) == x.hi < 16

(***************************************************************************)
(* Memory: cpu->mem, MEMORY_SIZE bytes, kept as the function of its        *)
(* non-zero bytes (every other byte is 0, as after memset).                *)
(***************************************************************************)
\* cpu->mem[i]
Rd(m, i) == IF i \in DOMAIN m THEN m[i] ELSE 0

\* cpu->mem[i] = b
Wr(m, i, b) ==
    IF b = 0
    THEN [j \in DOMAIN m \ {i} |-> m[j]]
    ELSE [j \in DOMAIN m \cup {i} |-> IF j = i THEN b ELSE m[j]]

mem_r8(m, addr) == Rd(m, Mask20(addr))

mem_w8(m, addr, value) == Wr(m, Mask20(addr), value)

mem_r16(m, addr) ==
    LET low == mem_r8(m, addr)
        high == mem_r8(m, Add32(addr, 1))
    IN  (low + high * 256) % W16

\* a faulty store: the high byte first (big-endian)
mem_w16_big_endian(m, addr, value) ==
    mem_w8(mem_w8(m, addr, (value \div 256) % 256), Add32(addr, 1), value % 256)

mem_w16(m, addr, value) ==
    mem_w8(mem_w8(m, addr, value % 256), Add32(addr, 1), (value \div 256) % 256)

\* the indices of cpu->mem[] a 16-bit access at addr uses
Idx16(addr) == {U32(Mask20(addr)), U32(Mask20(Add32(addr, 1)))}

(***************************************************************************)
(* Instruction codec                                                       *)
(***************************************************************************)
make_instr(op, dst, src) == (op * 4096 + dst * 512 + src * 64) % W16

make_instr_imm(op, dst, imm) == (op * 4096 + dst * 512 + (imm % 512)) % W16

make_ext_instr_reg2_low(ext_op, reg1, reg2) ==
    (OP_EXT * 4096 + ext_op * 512 + reg1 * 64 + reg2) % W16

make_ext_instr(ext_op, reg1, reg2) ==
    (OP_EXT * 4096 + ext_op * 512 + reg1 * 64 + reg2 * 8) % W16

\* the fields cpu_step takes from an instruction word
Opcode(instr) == (instr \div 4096) % 16
Dst(instr) == (instr \div 512) % 8
Src(instr) == (instr \div 64) % 8
Imm9(instr) == instr % 512
Reg2(instr) == (instr \div 8) % 8

(***************************************************************************)
(* Flags                                                                   *)
(***************************************************************************)
get_flag(f, flag) == AndN(f, flag, 8) # 0

set_flag(f, flag, value) ==
    IF value THEN OrN(f, flag, 8) ELSE AndN(f, 255 - flag, 8)

update_flags_bit7(f, result) ==
    set_flag(set_flag(f, FLAG_ZERO, result = 0), FLAG_SIGN, (result \div 128) % 2 = 1)

update_flags(f, result) ==
    set_flag(set_flag(f, FLAG_ZERO, result = 0), FLAG_SIGN, (result \div 32768) % 2 # 0)

(***************************************************************************)
(* Stack                                                                   *)
(***************************************************************************)
stack_push16_by_one(m, s, value) ==
    LET s1 == Sub32(s, 1)
    IN  [sp |-> s1, mem |-> mem_w16(m, s1, value)]

stack_push16(m, s, value) ==
    LET s1 == Sub32(s, 2)
    IN  [sp |-> s1, mem |-> mem_w16(m, s1, value)]

\* a faulty pop: the pointer moves before the read
stack_pop16_increment_first(m, s) ==
    [value |-> mem_r16(m, Add32(s, 2)), sp |-> Add32(s, 2)]

stack_pop16(m, s) ==
    [value |-> mem_r16(m, s), sp |-> Add32(s, 2)]

(***************************************************************************)
(* C strings inside cpu->mem, read and written through a raw pointer       *)
(* at cpu->mem + i: no masking, the scan runs upwards from index i.        *)
(***************************************************************************)
RECURSIVE StrLenIn(_, _)
\* strlen of the bytes from index i, or -1 when no NUL lies before the end of the array
StrLenIn(m, i) ==
    IF i >= MEMORY_SIZE THEN -1
    ELSE IF Rd(m, i) = 0 THEN 0
    ELSE LET r == StrLenIn(m, i + 1) IN IF r < 0 THEN -1 ELSE r + 1

\* the n bytes from index i
StrAt(m, i, n) == [k \in 1 .. n |-> Rd(m, i + k - 1)]

RECURSIVE StrCpy(_, _, _)
\* strcpy(cpu->mem + i, s): the bytes of s, then the NUL
StrCpy(m, i, s) ==
    IF s = <<>> THEN Wr(m, i, 0)
    ELSE StrCpy(Wr(m, i, Head(s)), i + 1, Tail(s))

\* a byte read from beyond the array: its value is not determined
GARBAGE == -1

(***************************************************************************)
(* cpu_create, and the program builder that loads a program                *)
(***************************************************************************)
cpu_create ==
    [regs |-> [r \in 0 .. NUMS_R - 1 |-> 0],
     pc |-> U32(0),
     sp |-> U32(MEMORY_SIZE - 2),
     flags |-> 0,
     mem |-> <<>>,
     halted |-> FALSE]

\* pb_init: the builder holds the machine and the address of the next word
pb_init(cpu) == [cpu |-> cpu, addr |-> U32(0)]

\* mem_w16(pb->cpu, pb->addr, word); pb->addr += 2
pb_emit(pb, word) ==
    [cpu |-> [pb.cpu EXCEPT !.mem = mem_w16(pb.cpu.mem, pb.addr, word)],
     addr |-> Add32(pb.addr, 2)]

pb_movi(pb, reg, imm) == pb_emit(pb, make_instr_imm(OP_MOVI, reg, imm))

pb_stdout_str(pb, str) ==
    LET p1 == pb_emit(pb, make_instr(OP_STDOUT, 0, 0))
        a1 == Add32(p1.addr, Len(str) + 1)
    IN  [cpu |-> [p1.cpu EXCEPT !.mem = StrCpy(p1.cpu.mem, Mask20(p1.addr), str)],
         addr |-> IF a1.lo % 2 = 1 THEN Add32(a1, 1) ELSE a1]

pb_stdout_reg(pb, reg) == pb_emit(pb, make_instr(OP_STDOUT, 1, reg))

pb_stdin_num(pb, reg) == pb_emit(pb, make_instr(OP_STDIN, 1, reg))

pb_stdin_str(pb, reg, buffer_addr) ==
    pb_emit([pb EXCEPT !.cpu.regs[reg] = buffer_addr % W16],
            make_instr(OP_STDIN, 0, reg))

pb_halt(pb) == pb_emit(pb, make_instr(OP_HALT, 0, 0))

pb_add(pb, dst, src) == pb_emit(pb, make_ext_instr(EXT_ADD, dst, src))

\* pb->cpu->regs[reg] = value
pb_load16(pb, reg, value) == [pb EXCEPT !.cpu.regs[reg] = value % W16]

(***************************************************************************)
(* cpu_step                                                                *)
(***************************************************************************)
\* a faulty entry check: the halted machine is stepped like a running one
ReturnsAtOnce_never(h) == FALSE

\* if (cpu->halted) return;
ReturnsAtOnce(h) == h

fetch_instruction(m, p) == [instr |-> mem_r16(m, p), pc |-> Add32(p, 2)]

\* the word cpu_step fetches in the current state, and pc after the fetch
Instr == fetch_instruction(mem, pc).instr
Pc1 == fetch_instruction(mem, pc).pc

Opcodes == {OP_HALT, OP_NOP, OP_MOV, OP_MOVI, OP_CMP, OP_JMP, OP_JZ, OP_JNZ,
            OP_PUSH, OP_POP, OP_CALL, OP_STDOUT, OP_STDIN, OP_EXT}

ExtOpcodes_without_xor ==
    {EXT_RET, EXT_LOAD, EXT_STORE, EXT_ADD, EXT_SUB, EXT_AND, EXT_OR}

ExtOpcodes == {EXT_RET, EXT_LOAD, EXT_STORE, EXT_ADD, EXT_SUB, EXT_AND, EXT_OR, EXT_XOR}

\* the two default: branches of the switches
Unrecognized(instr) ==
    IF Opcode(instr) = OP_EXT THEN Dst(instr) \notin ExtOpcodes
    ELSE Opcode(instr) \notin Opcodes

\* cpu_step is called, passes the halted check and dispatches to case op
Fetches(op) ==
    /\ ~ReturnsAtOnce(halted)
    /\ ~crashed
    /\ steps < MaxSteps
    /\ Opcode(Instr) = op

FetchesExt(ext_op) == Fetches(OP_EXT) /\ Dst(Instr) = ext_op

NoOut == [kind |-> "none", text |-> <<>>, num |-> 0, addr |-> U32(0)]

\* the bookkeeping of one executed instruction
Executed(name, o, a) ==
    /\ steps' = steps + 1
    /\ last' = [op |-> name, at |-> pc, instr |-> Instr, sp |-> sp, regs |-> regs]
    /\ out' = o
    /\ acc' = Idx16(pc) \cup a
    /\ UNCHANGED <<idle, prog>>

\* (cpu->regs[r] & ADDR_MASK), a jump target
Target(v) == U32(Mask20(U32(v)))

\* (int16_t)v
Signed16(v) == IF v >= 32768 THEN v - W16 ELSE v

StepHalted ==
    /\ ReturnsAtOnce(halted)
    /\ ~crashed
    /\ idle < MaxIdle
    /\ idle' = idle + 1
    /\ UNCHANGED <<regs, pc, sp, flags, mem, halted, crashed, steps, last, out, acc, prog>>

OpHalt ==
    /\ Fetches(OP_HALT)
    /\ halted' = TRUE
    /\ pc' = Pc1
    /\ Executed("HALT", [NoOut EXCEPT !.kind = "stopped", !.addr = Sub32(Pc1, 2)], {})
    /\ UNCHANGED <<regs, sp, flags, mem, crashed>>

OpNop ==
    /\ Fetches(OP_NOP)
    /\ pc' = Pc1
    /\ Executed("NOP", NoOut, {})
    /\ UNCHANGED <<regs, sp, flags, mem, halted, crashed>>

OpMov ==
    /\ Fetches(OP_MOV)
    /\ LET dst == Dst(Instr)
           src == Src(Instr)
       IN  /\ regs' = [regs EXCEPT ![dst] = regs[src]]
           /\ flags' = update_flags(flags, regs[src])
    /\ pc' = Pc1
    /\ Executed("MOV", NoOut, {})
    /\ UNCHANGED <<sp, mem, halted, crashed>>

\* (imm9 & 0x100) ? (imm9 | 0xFE00) : imm9
sign_extend_none(imm9) == imm9

sign_extend(imm9) ==
    IF AndN(imm9, 256, 16) # 0 THEN OrN(imm9, 65024, 16) ELSE imm9

OpMovi ==
    /\ Fetches(OP_MOVI)
    /\ LET dst == Dst(Instr)
           v == sign_extend(Imm9(Instr))
       IN  /\ regs' = [regs EXCEPT ![dst] = v]
           /\ flags' = update_flags(flags, v)
    /\ pc' = Pc1
    /\ Executed("MOVI", NoOut, {})
    /\ UNCHANGED <<sp, mem, halted, crashed>>

\* the flags after CMP of a and b
cmp_flags_clear_overflow(f, a, b) ==
    LET result == Sub32(U32(a), b)
    IN  set_flag(update_flags(set_flag(f, FLAG_CARRY, a < b), result.lo),
                 FLAG_OVERFLOW, FALSE)

cmp_flags(f, a, b) ==
    LET result == Sub32(U32(a), b)
    IN  update_flags(set_flag(f, FLAG_CARRY, a < b), result.lo)

OpCmp ==
    /\ Fetches(OP_CMP)
    /\ flags' = cmp_flags(flags, regs[Dst(Instr)], regs[Src(Instr)])
    /\ pc' = Pc1
    /\ Executed("CMP", NoOut, {})
    /\ UNCHANGED <<regs, sp, mem, halted, crashed>>

OpJmp ==
    /\ Fetches(OP_JMP)
    /\ pc' = Target(regs[Dst(Instr)])
    /\ Executed("JMP", NoOut, {})
    /\ UNCHANGED <<regs, sp, flags, mem, halted, crashed>>

jz_taken(f) == get_flag(f, FLAG_ZERO)

OpJz ==
    /\ Fetches(OP_JZ)
    /\ pc' = IF jz_taken(flags) THEN Target(regs[Dst(Instr)]) ELSE Pc1
    /\ Executed("JZ", NoOut, {})
    /\ UNCHANGED <<regs, sp, flags, mem, halted, crashed>>

\* a faulty JNZ: the jump is taken when Zero is set
jnz_taken_on_zero(f) == get_flag(f, FLAG_ZERO)

jnz_taken(f) == ~get_flag(f, FLAG_ZERO)

OpJnz ==
    /\ Fetches(OP_JNZ)
    /\ pc' = IF jnz_taken(flags) THEN Target(regs[Dst(Instr)]) ELSE Pc1
    /\ Executed("JNZ", NoOut, {})
    /\ UNCHANGED <<regs, sp, flags, mem, halted, crashed>>

OpPush ==
    /\ Fetches(OP_PUSH)
    /\ LET p == stack_push16(mem, sp, regs[Dst(Instr)])
       IN  /\ sp' = p.sp
           /\ mem' = p.mem
           /\ Executed("PUSH", NoOut, Idx16(p.sp))
    /\ pc' = Pc1
    /\ UNCHANGED <<regs, flags, halted, crashed>>

OpPop ==
    /\ Fetches(OP_POP)
    /\ LET p == stack_pop16(mem, sp)
       IN  /\ regs' = [regs EXCEPT ![Dst(Instr)] = p.value]
           /\ sp' = p.sp
           /\ flags' = update_flags(flags, p.value)
    /\ pc' = Pc1
    /\ Executed("POP", NoOut, Idx16(sp))
    /\ UNCHANGED <<mem, halted, crashed>>

\* the two pushes of CALL with the return address p
call_push(m, s, p) ==
    LET p1 == stack_push16(m, s, p.lo)
    IN  stack_push16(p1.mem, p1.sp, p.hi % 16)

OpCall ==
    /\ Fetches(OP_CALL)
    /\ LET p == call_push(mem, sp, Pc1)
       IN  /\ sp' = p.sp
           /\ mem' = p.mem
           /\ Executed("CALL", NoOut, Idx16(Sub32(sp, 2)) \cup Idx16(p.sp))
    /\ pc' = Target(regs[Dst(Instr)])
    /\ UNCHANGED <<regs, flags, halted, crashed>>

\* What printf("%s", mem + x) and strlen(mem + x) can do.  A scan that finds a
\* NUL inside the array has one outcome.  A scan that starts outside the array
\* or runs off its end reads bytes that are not the machine's: it finds a NUL
\* after some unknown bytes, or the process dies.
Scan(m, x) ==
    IF InArray(x) /\ StrLenIn(m, Mask20(x)) >= 0
    THEN LET n == StrLenIn(m, Mask20(x))
         IN  {[fault |-> FALSE, len |-> n, text |-> StrAt(m, Mask20(x), n),
               idx |-> {Add32(x, k) : k \in 0 .. n}]}
    ELSE LET inside == IF InArray(x) THEN MEMORY_SIZE - Mask20(x) ELSE 0
         IN  {[fault |-> FALSE, len |-> inside + e,
               text |-> StrAt(m, Mask20(x), inside) \o [k \in 1 .. e |-> GARBAGE],
               idx |-> {Add32(x, k) : k \in 0 .. inside + e}] : e \in 0 .. MaxBeyond}
             \cup {[fault |-> TRUE, len |-> 0, text |-> <<>>,
                    idx |-> {Add32(x, k) : k \in 0 .. inside}]}

\* if (cpu->pc & 1) cpu->pc++
Align(p) == IF p.lo % 2 = 1 THEN Add32(p, 1) ELSE p

OpStdout ==
    /\ Fetches(OP_STDOUT)
    /\ LET dst == Dst(Instr)
           src == Src(Instr)
       IN  \/ /\ dst = 0
              /\ \E o \in Scan(mem, Pc1) :
                    /\ crashed' = o.fault
                    /\ pc' = IF o.fault THEN Pc1 ELSE Align(Add32(Pc1, o.len + 1))
                    /\ Executed("STDOUT", [NoOut EXCEPT !.kind = "str", !.text = o.text], o.idx)
           \/ /\ dst = 1
              /\ pc' = Pc1
              /\ Executed("STDOUT", [NoOut EXCEPT !.kind = "num", !.num = Signed16(regs[src])], {})
              /\ UNCHANGED crashed
           \/ /\ dst = 2
              /\ \E o \in Scan(mem, Target(regs[src])) :
                    /\ crashed' = o.fault
                    /\ Executed("STDOUT", [NoOut EXCEPT !.kind = "str", !.text = o.text], o.idx)
              /\ pc' = Pc1
           \/ /\ dst = 3
              /\ pc' = Pc1
              /\ Executed("STDOUT", [NoOut EXCEPT !.kind = "chr", !.num = regs[src] % 256], {})
              /\ UNCHANGED crashed
           \/ /\ dst > 3
              /\ pc' = Pc1
              /\ Executed("STDOUT", NoOut, {})
              /\ UNCHANGED crashed
    /\ UNCHANGED <<regs, sp, flags, mem, halted>>

\* what fgets(buf, 256, stdin) can return: no line at end of input, or a line
StdinLines == {<<10>>, <<72, 105, 10>>, <<72, 105>>}

\* what scanf("%d", &value) can return: the conversions made, and the value
StdinNumbers == {0, 7, -1, 32768, 65541}

\* buf after the trailing newline is cut
Trim(buf) ==
    IF Len(buf) > 0 /\ buf[Len(buf)] = 10 THEN SubSeq(buf, 1, Len(buf) - 1) ELSE buf

\* what scanf("%d", &value) == 1 found: a number, or nothing it could convert
Scanned ==
    {[kind |-> "scanned", value |-> v] : v \in StdinNumbers}
    \cup {[kind |-> "not_scanned", value |-> 0]}

stdin_num_zero_on_failure(rg, f, src, conv) ==
    [regs |-> [rg EXCEPT ![src] = conv.value % W16],
     flags |-> update_flags(f, conv.value % W16)]

stdin_num(rg, f, src, conv) ==
    IF conv.kind = "scanned"
    THEN [regs |-> [rg EXCEPT ![src] = conv.value % W16],
          flags |-> update_flags(f, conv.value % W16)]
    ELSE [regs |-> rg, flags |-> f]

OpStdin ==
    /\ Fetches(OP_STDIN)
    /\ LET dst == Dst(Instr)
           src == Src(Instr)
           addr == Mask20(U32(regs[src]))
       IN  \/ /\ dst = 0
              /\ \/ /\ mem' = mem
                    /\ Executed("STDIN", NoOut, {})
                 \/ \E buf \in StdinLines :
                       /\ mem' = StrCpy(mem, addr, Trim(buf))
                       /\ Executed("STDIN", NoOut, {U32(addr + k) : k \in 0 .. Len(Trim(buf))})
              /\ UNCHANGED <<regs, flags>>
           \/ /\ dst # 0
              /\ \E conv \in Scanned :
                    /\ regs' = stdin_num(regs, flags, src, conv).regs
                    /\ flags' = stdin_num(regs, flags, src, conv).flags
                    /\ Executed("STDIN", [NoOut EXCEPT !.kind = conv.kind,
                                                       !.num = conv.value], {})
              /\ UNCHANGED mem
    /\ pc' = Pc1
    /\ UNCHANGED <<sp, halted, crashed>>

\* a faulty ADD: the overflow test compares the operands' signs with each other only
ext_add_overflow_by_operands(f, a, b) ==
    LET result == a + b
        r1_sign == AndN(a, 32768, 16) # 0
        r2_sign == AndN(b, 32768, 16) # 0
        f1 == set_flag(f, FLAG_CARRY, result > 65535)
        f2 == set_flag(f1, FLAG_OVERFLOW, r1_sign = r2_sign)
    IN  [value |-> result % W16, flags |-> update_flags(f2, result % W16)]

\* case EXT_ADD: the value stored in reg1 and the flags
ext_add(f, a, b) ==
    LET result == a + b
        r1_sign == AndN(a, 32768, 16) # 0
        r2_sign == AndN(b, 32768, 16) # 0
        res_sign == AndN(result % W16, 32768, 16) # 0
        overflow == (r1_sign = r2_sign) /\ (r1_sign # res_sign)
        f1 == set_flag(f, FLAG_CARRY, result > 65535)
        f2 == set_flag(f1, FLAG_OVERFLOW, overflow)
    IN  [value |-> result % W16, flags |-> update_flags(f2, result % W16)]

\* a faulty SUB: the carry is the borrow of the swapped operands
ext_sub_carry_swapped(f, a, b) ==
    LET result == Sub32(U32(a), b)
        r1_sign == AndN(a, 32768, 16) # 0
        r2_sign == AndN(b, 32768, 16) # 0
        res_sign == AndN(result.lo, 32768, 16) # 0
        overflow == (r1_sign # r2_sign) /\ (r1_sign # res_sign)
        f1 == set_flag(f, FLAG_CARRY, b < a)
        f2 == set_flag(f1, FLAG_OVERFLOW, overflow)
    IN  [value |-> result.lo, flags |-> update_flags(f2, result.lo)]

\* case EXT_SUB: the value stored in reg1 and the flags
ext_sub(f, a, b) ==
    LET result == Sub32(U32(a), b)
        r1_sign == AndN(a, 32768, 16) # 0
        r2_sign == AndN(b, 32768, 16) # 0
        res_sign == AndN(result.lo, 32768, 16) # 0
        overflow == (r1_sign # r2_sign) /\ (r1_sign # res_sign)
        f1 == set_flag(f, FLAG_CARRY, a < b)
        f2 == set_flag(f1, FLAG_OVERFLOW, overflow)
    IN  [value |-> result.lo, flags |-> update_flags(f2, result.lo)]

\* an arithmetic or logic instruction: r is the value for reg1 and the flags
ExtArith(name, r) ==
    /\ regs' = [regs EXCEPT ![Src(Instr)] = r.value]
    /\ flags' = r.flags
    /\ pc' = Pc1
    /\ Executed(name, NoOut, {})
    /\ UNCHANGED <<sp, mem, halted, crashed>>

ExtAdd ==
    /\ FetchesExt(EXT_ADD)
    /\ ExtArith("ADD", ext_add(flags, regs[Src(Instr)], regs[Reg2(Instr)]))

ExtSub ==
    /\ FetchesExt(EXT_SUB)
    /\ ExtArith("SUB", ext_sub(flags, regs[Src(Instr)], regs[Reg2(Instr)]))

\* the value stored by AND, OR, XOR and the flags
ext_logic_clear_carry(f, v) ==
    [value |-> v, flags |-> update_flags(set_flag(f, FLAG_CARRY, FALSE), v)]

ext_logic(f, v) == [value |-> v, flags |-> update_flags(f, v)]

ExtAnd ==
    /\ FetchesExt(EXT_AND)
    /\ ExtArith("AND", ext_logic(flags, AndN(regs[Src(Instr)], regs[Reg2(Instr)], 16)))

ExtOr ==
    /\ FetchesExt(EXT_OR)
    /\ ExtArith("OR", ext_logic(flags, OrN(regs[Src(Instr)], regs[Reg2(Instr)], 16)))

ExtXor ==
    /\ FetchesExt(EXT_XOR)
    /\ ExtArith("XOR", ext_logic(flags, XorN(regs[Src(Instr)], regs[Reg2(Instr)], 16)))

\* a faulty RET: the low word is popped first
ext_ret_low_first(m, s) ==
    LET a == stack_pop16(m, s)
        b == stack_pop16(m, a.sp)
    IN  [pc |-> [hi |-> b.value % 16, lo |-> a.value], sp |-> b.sp]

\* case EXT_RET: the two pops, and (high << 16) | low
ext_ret(m, s) ==
    LET a == stack_pop16(m, s)
        b == stack_pop16(m, a.sp)
    IN  [pc |-> [hi |-> a.value % 16, lo |-> b.value], sp |-> b.sp]

ExtRet ==
    /\ FetchesExt(EXT_RET)
    /\ LET r == ext_ret(mem, sp)
       IN  /\ pc' = r.pc
           /\ sp' = r.sp
    /\ Executed("RET", NoOut, Idx16(sp) \cup Idx16(Add32(sp, 2)))
    /\ UNCHANGED <<regs, flags, mem, halted, crashed>>

ExtLoad ==
    /\ FetchesExt(EXT_LOAD)
    /\ LET addr == U32(regs[Reg2(Instr)])
           v == mem_r16(mem, addr)
       IN  /\ regs' = [regs EXCEPT ![Src(Instr)] = v]
           /\ flags' = update_flags(flags, v)
           /\ Executed("LOAD", NoOut, Idx16(addr))
    /\ pc' = Pc1
    /\ UNCHANGED <<sp, mem, halted, crashed>>

ExtStore ==
    /\ FetchesExt(EXT_STORE)
    /\ LET addr == U32(regs[Src(Instr)])
       IN  /\ mem' = mem_w16(mem, addr, regs[Reg2(Instr)])
           /\ Executed("STORE", NoOut, Idx16(addr))
    /\ pc' = Pc1
    /\ UNCHANGED <<regs, sp, flags, halted, crashed>>

\* the default: branches: an opcode above OP_EXT, or an extended opcode that is none
OpUnknown ==
    /\ ~ReturnsAtOnce(halted)
    /\ ~crashed
    /\ steps < MaxSteps
    /\ Unrecognized(Instr)
    /\ halted' = TRUE
    /\ pc' = Pc1
    /\ Executed("UNKNOWN",
                IF Opcode(Instr) = OP_EXT
                THEN [NoOut EXCEPT !.kind = "unknown_ext", !.num = Dst(Instr)]
                ELSE [NoOut EXCEPT !.kind = "unknown", !.num = Opcode(Instr),
                                   !.addr = Sub32(Pc1, 2)],
                {})
    /\ UNCHANGED <<regs, sp, flags, mem, crashed>>

cpu_step ==
    \/ StepHalted
    \/ OpHalt \/ OpNop \/ OpMov \/ OpMovi \/ OpCmp \/ OpJmp \/ OpJz \/ OpJnz
    \/ OpPush \/ OpPop \/ OpCall \/ OpStdout \/ OpStdin
    \/ ExtRet \/ ExtLoad \/ ExtStore \/ ExtAdd \/ ExtSub \/ ExtAnd \/ ExtOr \/ ExtXor
    \/ OpUnknown

(***************************************************************************)
(* Programs.  A program is what a program_* function of main.c does with   *)
(* the builder: a sequence of builder calls, run on the created machine    *)
(* before cpu_run.                                                         *)
(***************************************************************************)
Emit(w) == [k |-> "emit", a |-> w, b |-> 0, s |-> <<>>]
Load16(r, v) == [k |-> "load16", a |-> r, b |-> v, s |-> <<>>]
Movi(r, imm) == [k |-> "movi", a |-> r, b |-> imm, s |-> <<>>]
StdoutStr(str) == [k |-> "stdout_str", a |-> 0, b |-> 0, s |-> str]
StdoutReg(r) == [k |-> "stdout_reg", a |-> r, b |-> 0, s |-> <<>>]
StdinNum(r) == [k |-> "stdin_num", a |-> r, b |-> 0, s |-> <<>>]
StdinStr(r, addr) == [k |-> "stdin_str", a |-> r, b |-> addr, s |-> <<>>]
Add(dst, src) == [k |-> "add", a |-> dst, b |-> src, s |-> <<>>]
Halt == [k |-> "halt", a |-> 0, b |-> 0, s |-> <<>>]

\* one builder call
Apply(pb, c) ==
    CASE c.k = "emit" -> pb_emit(pb, c.a)
      [] c.k = "load16" -> pb_load16(pb, c.a, c.b)
      [] c.k = "movi" -> pb_movi(pb, c.a, c.b)
      [] c.k = "stdout_str" -> pb_stdout_str(pb, c.s)
      [] c.k = "stdout_reg" -> pb_stdout_reg(pb, c.a)
      [] c.k = "stdin_num" -> pb_stdin_num(pb, c.a)
      [] c.k = "stdin_str" -> pb_stdin_str(pb, c.a, c.b)
      [] c.k = "add" -> pb_add(pb, c.a, c.b)
      [] c.k = "halt" -> pb_halt(pb)

RECURSIVE Build(_, _)
Build(pb, cmds) ==
    IF cmds = <<>> THEN pb ELSE Build(Apply(pb, Head(cmds)), Tail(cmds))

\* the machine main() runs: cpu_create, pb_init, the program's builder calls
Loaded(cmds) == Build(pb_init(cpu_create), cmds).cpu

Prog(name, par, cmds) == [name |-> name, par |-> par, cmds |-> cmds]

\* register values tried: 0, small ones, both sides of the sign bit, -5, -1
Vals == {0, 1, 5, 10, 32767, 32768, 65531, 65535}

\* register pairs tried, one of them a register with itself
RegPairs == {<<0, 1>>, <<2, 2>>, <<7, 3>>}

ArithOps == {EXT_ADD, EXT_SUB, EXT_AND, EXT_OR, EXT_XOR}

\* op reg1,reg2 on given values; HALT
ArithProgs ==
    {Prog("arith", <<op, rp[1], rp[2], a, b>>,
          <<Load16(rp[1], a), Load16(rp[2], b),
            Emit(make_ext_instr(op, rp[1], rp[2])), Halt>>) :
        op \in ArithOps, rp \in RegPairs, a \in Vals, b \in Vals}

\* ADD R5,R6 first, to set Carry and Overflow; then op R0,R1; HALT
FlagProgs ==
    {Prog("flags", <<op, x, a, b>>,
          <<Load16(5, x), Load16(6, 65536 - x), Add(5, 6),
            Load16(0, a), Load16(1, b), Emit(make_ext_instr(op, 0, 1)), Halt>>) :
        op \in ArithOps, x \in {32768, 1}, a \in {0, 5, 32768, 65535}, b \in {0, 10, 32767}}

\* ADD R5,R6 on operands that leave Overflow alone set (0x7FFF + 1), Carry
\* alone set (1 + 0xFFFF) or both (0x8000 + 0x8000); then CMP, AND, OR or XOR
\* R0,R1; HALT
PriorFlagProgs ==
    {Prog("prior", <<w, xy[1], xy[2], a, b>>,
          <<Load16(5, xy[1]), Load16(6, xy[2]), Add(5, 6),
            Load16(0, a), Load16(1, b), Emit(w), Halt>>) :
        w \in {make_instr(OP_CMP, 0, 1), make_ext_instr(EXT_AND, 0, 1),
               make_ext_instr(EXT_OR, 0, 1), make_ext_instr(EXT_XOR, 0, 1)},
        xy \in {<<32767, 1>>, <<1, 65535>>, <<32768, 32768>>},
        a \in {0, 5, 32768, 65535}, b \in {0, 5, 32767}}

MovProgs ==
    {Prog("mov", <<rp[1], rp[2], v>>,
          <<Load16(rp[2], v), Emit(make_instr(OP_MOV, rp[1], rp[2])), Halt>>) :
        rp \in RegPairs, v \in Vals}

MoviProgs ==
    {Prog("movi", <<r, imm>>, <<Movi(r, imm), Halt>>) : r \in {0, 7}, imm \in 0 .. 511}

CmpProgs ==
    {Prog("cmp", <<rp[1], rp[2], a, b>>,
          <<Load16(rp[1], a), Load16(rp[2], b),
            Emit(make_instr(OP_CMP, rp[1], rp[2])), Halt>>) :
        rp \in RegPairs, a \in Vals, b \in Vals}

\* MOV R0,R1 sets Zero from v; then the jump; NOP at 4; HALT at 6
JumpProgs ==
    {Prog("jump", <<op, v, t>>,
          <<Load16(1, v), Load16(4, t), Emit(make_instr(OP_MOV, 0, 1)),
            Emit(make_instr(op, 4, 0)), Emit(make_instr(OP_NOP, 0, 0)), Halt>>) :
        op \in {OP_JMP, OP_JZ, OP_JNZ}, v \in {0, 5}, t \in {6, 7, 0}}

\* PUSH r; POP r2; HALT
PushPopProgs ==
    {Prog("pushpop", <<rp[1], rp[2], v>>,
          <<Load16(rp[1], v), Emit(make_instr(OP_PUSH, rp[1], 0)),
            Emit(make_instr(OP_POP, rp[2], 0)), Halt>>) :
        rp \in RegPairs, v \in Vals}

\* POP r first, on the stack as created; PUSH r2; HALT
PopPushProgs ==
    {Prog("poppush", <<rp[1], rp[2], v>>,
          <<Load16(rp[2], v), Emit(make_instr(OP_POP, rp[1], 0)),
            Emit(make_instr(OP_PUSH, rp[2], 0)), Halt>>) :
        rp \in RegPairs, v \in {5, 65535}}

\* n NOPs; CALL R4; HALT; RET, with R4 the address of the RET
CallProgs ==
    {Prog("call", <<n, r>>,
          [i \in 1 .. n |-> Emit(make_instr(OP_NOP, 0, 0))]
          \o <<Load16(r, 2 * n + 4), Emit(make_instr(OP_CALL, r, 0)), Halt,
               Emit(make_ext_instr(EXT_RET, 0, 0))>>) :
        n \in 0 .. 2, r \in {4, 0}}

\* instruction words run at the top of memory
TopWords ==
    {make_instr(OP_NOP, 0, 0), make_instr(OP_HALT, 0, 0), make_instr(OP_CALL, 4, 0),
     make_instr(OP_STDOUT, 0, 0), make_instr(OP_PUSH, 1, 0), make_instr(OP_POP, 0, 0),
     make_instr(OP_JMP, 4, 0), make_instr_imm(OP_MOVI, 0, 3), 57344,
     make_ext_instr(EXT_RET, 0, 0)}

\* The word w is pushed to 0xFFFFC and reached by RET: PUSH w; PUSH low;
\* PUSH high; RET; and a RET at 8 for a CALL in w.
TopProgsC ==
    {Prog("top_fffc", <<w>>,
          <<Load16(1, w), Load16(2, 65532), Load16(3, 15), Load16(4, 8),
            Emit(make_instr(OP_PUSH, 1, 0)), Emit(make_instr(OP_PUSH, 2, 0)),
            Emit(make_instr(OP_PUSH, 3, 0)), Emit(make_ext_instr(EXT_RET, 0, 0)),
            Emit(make_ext_instr(EXT_RET, 0, 0))>>) :
        w \in TopWords}

\* The same at 0xFFFFE, the last word of memory: a POP first moves sp to 2^20.
TopProgsE ==
    {Prog("top_fffe", <<w>>,
          <<Load16(1, w), Load16(2, 65534), Load16(3, 15), Load16(4, 10),
            Emit(make_instr(OP_POP, 7, 0)),
            Emit(make_instr(OP_PUSH, 1, 0)), Emit(make_instr(OP_PUSH, 2, 0)),
            Emit(make_instr(OP_PUSH, 3, 0)), Emit(make_ext_instr(EXT_RET, 0, 0)),
            Emit(make_ext_instr(EXT_RET, 0, 0))>>) :
        w \in TopWords}

\* STDOUT with dst = 0 at 0xFFFFC and the two bytes of v as its string at 0xFFFFE
TopStrProgs ==
    {Prog("top_str", <<v>>,
          <<Load16(0, v), Load16(1, make_instr(OP_STDOUT, 0, 0)),
            Load16(2, 65532), Load16(3, 15),
            Emit(make_instr(OP_POP, 7, 0)), Emit(make_instr(OP_PUSH, 0, 0)),
            Emit(make_instr(OP_PUSH, 1, 0)), Emit(make_instr(OP_PUSH, 2, 0)),
            Emit(make_instr(OP_PUSH, 3, 0)), Emit(make_ext_instr(EXT_RET, 0, 0))>>) :
        v \in {16705, 65, 0}}

\* A CALL R4 fetched at the odd address 0xFFFFF: its low byte is the 0 at
\* 0xFFFFF, its high byte the low byte of the MOVI at address 0.
CallOddProgs ==
    {Prog("call_odd", <<>>,
          <<Load16(2, 65535), Load16(3, 15), Load16(4, 8),
            Movi(5, make_instr(OP_CALL, 4, 0) \div 256),
            Emit(make_instr(OP_PUSH, 2, 0)), Emit(make_instr(OP_PUSH, 3, 0)),
            Emit(make_ext_instr(EXT_RET, 0, 0)), Emit(make_ext_instr(EXT_RET, 0, 0))>>)}

\* An undefined word w is stored at address 0 over the POP already executed
\* there, and fetched after the NOP at 0xFFFFE: POP R7; PUSH R1=NOP;
\* STORE R5,R6; PUSH low; PUSH high; RET.
WrapUnknownProgs ==
    {Prog("wrap_unknown", <<w>>,
          <<Load16(1, make_instr(OP_NOP, 0, 0)), Load16(2, 65534), Load16(3, 15),
            Load16(5, 0), Load16(6, w),
            Emit(make_instr(OP_POP, 7, 0)), Emit(make_instr(OP_PUSH, 1, 0)),
            Emit(make_ext_instr(EXT_STORE, 5, 6)),
            Emit(make_instr(OP_PUSH, 2, 0)), Emit(make_instr(OP_PUSH, 3, 0)),
            Emit(make_ext_instr(EXT_RET, 0, 0))>>) :
        w \in {57344, 61731}}

Strings == {<<>>, <<72>>, <<72, 105>>, <<72, 105, 33>>}

\* pb_stdout_str(s); MOVI R0,1; HALT
StdoutStrProgs ==
    {Prog("stdout_str", <<Len(str)>>, <<StdoutStr(str), Movi(0, 1), Halt>>) : str \in Strings}

\* STDOUT with dst = mode on a register holding v (for mode 2, an address)
StdoutRegProgs ==
    {Prog("stdout_reg", <<mode, v>>,
          <<Load16(1, v), Emit(make_instr(OP_STDOUT, mode, 1)), Halt>>) :
        mode \in {1, 2, 3, 5}, v \in {0, 1, 65, 65535}}

StdinProgs ==
    {Prog("stdin_num", <<r>>, <<Load16(r, 5), StdinNum(r), Halt>>) : r \in {0, 3}}
    \cup {Prog("stdin_str", <<addr>>, <<StdinStr(2, addr), Halt>>) : addr \in {256, 65535, 2}}

\* n NOPs, then a word with an opcode that is none
UnknownProgs ==
    {Prog("unknown", <<n, w>>,
          [i \in 1 .. n |-> Emit(make_instr(OP_NOP, 0, 0))] \o <<Emit(w)>>) :
        n \in 0 .. 2, w \in {57344, 61731}}

\* MOVI R1,N; MOVI R3,1; loop: SUB R1,R3; JNZ R4; HALT, with R4 the loop address
LoopProgs ==
    {Prog("loop", <<n>>,
          <<Movi(1, n), Movi(3, 1), Emit(make_ext_instr(EXT_SUB, 1, 3)),
            Load16(4, 4), Emit(make_instr(OP_JNZ, 4, 0)), Halt>>) :
        n \in 1 .. MaxCount}

\* STORE R1,R2; LOAD R3,R1; HALT
LoadStoreProgs ==
    {Prog("loadstore", <<addr, v>>,
          <<Load16(1, addr), Load16(2, v), Emit(make_ext_instr(EXT_STORE, 1, 2)),
            Emit(make_ext_instr(EXT_LOAD, 3, 1)), Halt>>) :
        addr \in {256, 65535, 3}, v \in {0, 4660, 65535}}

Programs ==
    ArithProgs \cup FlagProgs \cup MovProgs \cup MoviProgs \cup CmpProgs \cup JumpProgs
    \cup PushPopProgs \cup PopPushProgs \cup CallProgs \cup TopProgsC \cup TopProgsE
    \cup TopStrProgs \cup CallOddProgs \cup StdoutStrProgs \cup StdoutRegProgs
    \cup StdinProgs \cup UnknownProgs \cup LoopProgs \cup LoadStoreProgs
    \cup WrapUnknownProgs \cup PriorFlagProgs

(***************************************************************************)
(* The run of main(): the machine is created, a program is loaded, and     *)
(* cpu_step is called.                                                     *)
(***************************************************************************)
NoInstr == [op |-> "none", at |-> U32(0), instr |-> 0, sp |-> U32(0),
            regs |-> [r \in 0 .. NUMS_R - 1 |-> 0]]

\* the state in which cpu_run starts, with the program p loaded and sp = top
Start(p, top) ==
    LET cpu == Loaded(p.cmds)
    IN  /\ regs = cpu.regs
        /\ pc = cpu.pc
        /\ sp = top
        /\ flags = cpu.flags
        /\ mem = cpu.mem
        /\ halted = cpu.halted
        /\ crashed = FALSE
        /\ steps = 0
        /\ idle = 0
        /\ last = NoInstr
        /\ out = NoOut
        /\ acc = {}
        /\ prog = [name |-> p.name, par |-> p.par]

Init == \E p \in Programs : Start(p, cpu_create.sp)

Next == cpu_step

Spec == Init /\ [][Next]_vars

(***************************************************************************)
(* cpu_run: cpu_step is called as long as the machine is not halted, so a  *)
(* step that can be taken is taken.  The run is checked on the counted     *)
(* loops and on a few programs of every other kind.                        *)
(***************************************************************************)
RunProgs ==
    LoopProgs \cup JumpProgs \cup CallProgs \cup TopProgsE \cup StdoutStrProgs
    \cup StdinProgs \cup UnknownProgs \cup LoadStoreProgs
    \cup {p \in ArithProgs : p.par[4] = 5 /\ p.par[5] = 10}
    \cup {p \in CmpProgs : p.par[3] = 5 /\ p.par[4] = 10}

InitRun == \E p \in RunProgs : Start(p, cpu_create.sp)

FairSpec == InitRun /\ [][Next]_vars /\ WF_vars(Next)

(***************************************************************************)
(* The same run with the stack pointer anywhere.  sp is moved only by      *)
(* stack_push16 and stack_pop16, by 2 modulo 2^32, and a run of POPs moves *)
(* it without writing memory: every even uint32_t is a value it can have   *)
(* when the instructions below are reached.                                *)
(***************************************************************************)
StackTops ==
    {U32(MEMORY_SIZE - 2), U32(0), U32(2), U32(MEMORY_SIZE), U32(MEMORY_SIZE + 2),
     [hi |-> 65535, lo |-> 65534]}

StackProgs ==
    FlagProgs \cup MovProgs \cup CmpProgs \cup JumpProgs
    \cup PushPopProgs \cup PopPushProgs \cup CallProgs \cup TopProgsC \cup TopProgsE
    \cup TopStrProgs \cup CallOddProgs \cup StdoutStrProgs \cup StdoutRegProgs
    \cup StdinProgs \cup UnknownProgs \cup LoopProgs \cup LoadStoreProgs

InitStack == \E p \in StackProgs : \E top \in StackTops : Start(p, top)

SpecStack == InitStack /\ [][Next]_vars

(***************************************************************************)
(* The memory interface used by a loader: mem_w16 at any uint32_t address  *)
(* on the created machine.                                                 *)
(***************************************************************************)
\* words a loader writes one after the other
MaxWrites == 2

MemAddrs ==
    {U32(0), U32(1), U32(MEMORY_SIZE - 2), U32(MEMORY_SIZE - 1), U32(MEMORY_SIZE),
     U32(2 * MEMORY_SIZE - 1), [hi |-> 65535, lo |-> 65535]}

MemVals == {0, 1, 255, 256, 4660, 43981, 65535}

InitMem == Start(Prog("none", <<>>, <<>>), cpu_create.sp)

MemWrite ==
    /\ steps < MaxWrites
    /\ \E a \in MemAddrs, v \in MemVals :
          /\ mem' = mem_w16(mem, a, v)
          /\ last' = [NoInstr EXCEPT !.op = "w16", !.at = a, !.instr = v]
          /\ acc' = Idx16(a)
    /\ steps' = steps + 1
    /\ UNCHANGED <<regs, pc, sp, flags, halted, crashed, idle, out, prog>>

NextMem == MemWrite

SpecMem == InitMem /\ [][NextMem]_vars

(***************************************************************************)
(* The instruction codec on its own.  The initial states are the calls of  *)
(* the three encoders, recorded in prog; the action builds the word, emits *)
(* it at address 0 of the fresh machine as the builder does, and fetches   *)
(* it back.                                                                *)
(***************************************************************************)
CodecCalls ==
    {Prog("make_instr", <<op, dst, src>>, <<>>) :
        op \in 0 .. 15, dst \in 0 .. NUMS_R - 1, src \in 0 .. NUMS_R - 1}
    \cup {Prog("make_instr_imm", <<op, dst, imm>>, <<>>) :
        op \in 0 .. 15, dst \in 0 .. NUMS_R - 1, imm \in 0 .. 511}
    \cup {Prog("make_ext_instr", <<ext_op, reg1, reg2>>, <<>>) :
        ext_op \in 0 .. 7, reg1 \in 0 .. NUMS_R - 1, reg2 \in 0 .. NUMS_R - 1}

InitCodec == \E p \in CodecCalls : Start(p, cpu_create.sp)

Encoded(name, word) ==
    LET cpu == pb_emit(pb_init(cpu_create), word).cpu
    IN  /\ prog.name = name
        /\ last.op = "none"
        /\ mem' = cpu.mem
        /\ last' = [NoInstr EXCEPT !.op = "decode",
                                   !.instr = fetch_instruction(cpu.mem, cpu.pc).instr]
        /\ acc' = Idx16(cpu.pc)
        /\ steps' = steps + 1
        /\ UNCHANGED <<regs, pc, sp, flags, halted, crashed, idle, out, prog>>

EncodeInstr ==
    Encoded("make_instr", make_instr(prog.par[1], prog.par[2], prog.par[3]))

EncodeImm ==
    Encoded("make_instr_imm", make_instr_imm(prog.par[1], prog.par[2], prog.par[3]))

EncodeExt ==
    Encoded("make_ext_instr", make_ext_instr(prog.par[1], prog.par[2], prog.par[3]))

NextCodec == EncodeInstr \/ EncodeImm \/ EncodeExt

SpecCodec == InitCodec /\ [][NextCodec]_vars


(***************************************************************************)
(* Properties                                                              *)
(***************************************************************************)
RECURSIVE StrLenWrap(_, _)
\* length of the string that starts at the 20-bit address i, the addresses
\* after 2^20 - 1 going on at 0
StrLenWrap(m, i) ==
    IF Rd(m, i % MEMORY_SIZE) = 0 THEN 0 ELSE 1 + StrLenWrap(m, i + 1)

StrAtWrap(m, i, n) == [k \in 1 .. n |-> Rd(m, (i + k - 1) % MEMORY_SIZE)]

\* bit i of the 16-bit value v
Bit(v, i) == (v \div (2 ^ i)) % 2

\* the 4096 instruction words whose top nibble is OP_EXT
ExtWords == {OP_EXT * 4096 + low : low \in 0 .. 4095}

\* none of them reaches the default branch of the extended switch
ExtWordsRecognized == \A w \in ExtWords : ~Unrecognized(w)

ZeroSet(f) == f % 2 = 1
SignSet(f) == (f \div 2) % 2 = 1
CarrySet(f) == (f \div 4) % 2 = 1
OverflowSet(f) == (f \div 8) % 2 = 1

\* bit 15 of a 16-bit value
Neg(v) == v >= 32768

\* an instruction named op is executed by this step
Executes(op) == steps' = steps + 1 /\ last'.op = op

\* C1: every index into cpu->mem[] that an instruction uses lies in
\* 0 .. 2^20 - 1.
C1_AccessesInArray == \A i \in acc : InArray(i)

\* C2: once halted, a cpu_step changes no register, nor pc, sp, flags,
\* memory, and halted stays true.
C2_HaltedAbsorbing ==
    [][halted => /\ halted'
                 /\ regs' = regs
                 /\ pc' = pc
                 /\ sp' = sp
                 /\ flags' = flags
                 /\ mem' = mem]_vars

\* cpu_step was called on the halted machine
C2_Witness == halted /\ idle > 0 /\ last.op = "HALT"

\* C3: after every cpu_step the program counter is in 0 .. 2^20 - 1.
C3_PcInRange == InArray(pc)

\* C4: in every reachable state the stack pointer is in 0 .. 2^20 - 1.
C4_SpInRange == InArray(sp)

\* C5: CALL fetched at address a, then RET as the next instruction: the
\* program counter is (a + 2) mod 2^20, the address after the CALL.
C5_CallRet ==
    [][(last.op = "CALL" /\ Executes("RET"))
          => pc' = U32(Mask20(Add32(last.at, 2)))]_vars

\* the CALL fetched at 0xFFFFE has returned to address 0
C5_Witness ==
    /\ last.op = "RET"
    /\ last.at = U32(10)
    /\ prog.name = "top_fffe"
    /\ prog.par = <<make_instr(OP_CALL, 4, 0)>>
    /\ steps = 7
    /\ sp = U32(MEMORY_SIZE - 2)
    /\ pc = U32(0)

\* C6: PUSH r, then POP r2 as the next instruction: r2 holds the value r had
\* and the stack pointer is what it was before the PUSH.
C6_PushPop ==
    [][(last.op = "PUSH" /\ Executes("POP"))
          => /\ regs'[Dst(last'.instr)] = last.regs[Dst(last.instr)]
             /\ sp' = last.sp]_vars

\* a PUSH at sp = 0, which wrote at 0xFFFFE, and the POP after it
C6_Witness ==
    /\ last.op = "POP"
    /\ prog.name = "pushpop"
    /\ steps = 2
    /\ sp = U32(0)
    /\ regs[Dst(last.instr)] = 65531
    /\ Rd(mem, MEMORY_SIZE - 2) = 251

\* C7: ADD reg1,reg2 stores (a + b) mod 2^16, Carry is a + b > 0xFFFF,
\* Overflow is: a and b have the same sign and the result has the other.
C7_Add ==
    [][Executes("ADD") =>
          LET reg1 == Src(last'.instr)
              a == regs[reg1]
              b == regs[Reg2(last'.instr)]
              r == (a + b) % 65536
          IN  /\ regs'[reg1] = r
              /\ CarrySet(flags') = (a + b > 65535)
              /\ OverflowSet(flags') = ((Neg(a) = Neg(b)) /\ (Neg(r) # Neg(a)))]_vars

\* 0x7FFF + 0x7FFF = 0xFFFE with Overflow set and Carry clear
C7_Witness ==
    /\ last.op = "ADD"
    /\ last.regs[Src(last.instr)] = 32767
    /\ last.regs[Reg2(last.instr)] = 32767
    /\ regs[Src(last.instr)] = 65534
    /\ OverflowSet(flags)
    /\ ~CarrySet(flags)

\* C8: SUB reg1,reg2 stores (a - b) mod 2^16, Carry is a < b, Overflow is:
\* a and b have different signs and the result's sign is not a's.
C8_Sub ==
    [][Executes("SUB") =>
          LET reg1 == Src(last'.instr)
              a == regs[reg1]
              b == regs[Reg2(last'.instr)]
              r == (a - b) % 65536
          IN  /\ regs'[reg1] = r
              /\ CarrySet(flags') = (a < b)
              /\ OverflowSet(flags') = ((Neg(a) # Neg(b)) /\ (Neg(r) # Neg(a)))]_vars

\* 5 - 10 = 0xFFFB with Carry set and Overflow clear
C8_Witness ==
    /\ last.op = "SUB"
    /\ last.regs[Src(last.instr)] = 5
    /\ last.regs[Reg2(last.instr)] = 10
    /\ regs[Src(last.instr)] = 65531
    /\ CarrySet(flags)
    /\ ~OverflowSet(flags)

\* C9: the counted loop MOVI R1,n; MOVI R3,1; SUB R1,R3; JNZ; HALT halts, after
\* 2 + 2n + 1 instructions (n times the loop body), with R1 = 0 and Zero set.
C9_LoopTerminates ==
    (prog.name = "loop")
        ~> (/\ prog.name = "loop"
            /\ halted
            /\ last.op = "HALT"
            /\ steps = 2 * prog.par[1] + 3
            /\ regs[1] = 0
            /\ ZeroSet(flags))

\* the loop with the largest counter has halted
C9_Witness ==
    /\ prog = [name |-> "loop", par |-> <<MaxCount>>]
    /\ halted
    /\ steps = 2 * MaxCount + 3
    /\ regs[1] = 0

\* C10: after mem_w16(addr, v), mem_r16(addr) is v, the low byte of v is at
\* addr mod 2^20 and the high byte at (addr + 1) mod 2^20.
C10_WordRoundTrip ==
    last.op = "w16" =>
        /\ mem_r16(mem, last.at) = last.instr
        /\ Rd(mem, Mask20(last.at)) = last.instr % 256
        /\ Rd(mem, (Mask20(last.at) + 1) % MEMORY_SIZE) = last.instr \div 256

\* 0x1234 written at 2^20 - 1: the high byte is at address 0
C10_Witness ==
    /\ last.op = "w16"
    /\ last.at = U32(MEMORY_SIZE - 1)
    /\ last.instr = 4660
    /\ Rd(mem, MEMORY_SIZE - 1) = 52
    /\ Rd(mem, 0) = 18

\* C11: MOVI r, imm9 leaves in r the 9-bit immediate sign-extended to 16 bits
\* (imm9 when bit 8 is clear, imm9 with bits 9..15 set when bit 8 is set) and
\* changes no other register.
C11_Movi ==
    [][Executes("MOVI") =>
          LET r == Dst(last'.instr)
              imm9 == last'.instr % 512
          IN  /\ regs'[r] = IF imm9 >= 256 THEN imm9 + 65024 ELSE imm9
              /\ \A q \in 0 .. NUMS_R - 1 : q # r => regs'[q] = regs[q]]_vars

\* MOVI R7, 0x1FF gave 0xFFFF
C11_Witness ==
    /\ last.op = "MOVI"
    /\ Dst(last.instr) = 7
    /\ last.instr % 512 = 511
    /\ regs[7] = 65535

\* C12: a word whose top nibble is 0xE or 0xF, executed in a running machine,
\* halts it, and the diagnostic reports the opcode and the 20-bit memory
\* address the word was fetched from.
C12_UnknownOpcode ==
    (last.op = "UNKNOWN" /\ Opcode(last.instr) \notin Opcodes) =>
        /\ halted
        /\ out.kind = "unknown"
        /\ out.num = Opcode(last.instr)
        /\ out.addr = U32(Mask20(last.at))

\* C13: decoding inverts encoding: the fields cpu_step extracts from
\* make_instr(op, dst, src) are op, dst, src; from make_instr_imm(op, dst, imm)
\* they are op, dst, imm; from make_ext_instr(ext_op, reg1, reg2) they are
\* OP_EXT, ext_op, reg1, reg2.
C13_Codec ==
    last.op = "decode" =>
        /\ prog.name = "make_instr" =>
              /\ Opcode(last.instr) = prog.par[1]
              /\ Dst(last.instr) = prog.par[2]
              /\ Src(last.instr) = prog.par[3]
        /\ prog.name = "make_instr_imm" =>
              /\ Opcode(last.instr) = prog.par[1]
              /\ Dst(last.instr) = prog.par[2]
              /\ Imm9(last.instr) = prog.par[3]
        /\ prog.name = "make_ext_instr" =>
              /\ Opcode(last.instr) = OP_EXT
              /\ Dst(last.instr) = prog.par[1]
              /\ Src(last.instr) = prog.par[2]
              /\ Reg2(last.instr) = prog.par[3]

\* make_ext_instr(EXT_XOR, 7, 5) = 0xDFE8 was decoded
C13_Witness ==
    /\ prog = [name |-> "make_ext_instr", par |-> <<EXT_XOR, 7, 5>>]
    /\ last.op = "decode"
    /\ last.instr = 57320
    /\ Reg2(last.instr) = 5

\* C14: STDIN in number mode with input that does not parse leaves the eight
\* registers and the flags unchanged, does not halt, and goes on with the next
\* instruction; with input that parses, the value truncated to 16 bits is
\* stored in the src register.
C14_StdinNum ==
    [][(Executes("STDIN") /\ Dst(last'.instr) # 0) =>
          /\ out'.kind = "not_scanned" =>
                /\ regs' = regs
                /\ flags' = flags
                /\ ~halted'
                /\ pc' = Add32(last'.at, 2)
          /\ out'.kind = "scanned" =>
                regs'[Src(last'.instr)] = out'.num % 65536]_vars

\* input that did not parse after R3 = 5 was loaded
C14_Witness ==
    /\ last.op = "STDIN"
    /\ Dst(last.instr) # 0
    /\ Src(last.instr) = 3
    /\ out.kind = "not_scanned"
    /\ last.regs[3] = 5
    /\ regs[3] = 5

\* C15: after STDOUT with dst = 0 fetched at address a, with a string of L
\* bytes and its NUL stored at a + 2, the bytes printed are the L bytes of the
\* string and pc is a + 2 + L + 1 rounded up to an even address, where the
\* builder placed the next instruction.
C15_StdoutStr ==
    (last.op = "STDOUT" /\ Dst(last.instr) = 0) =>
        LET a == Mask20(last.at)
            L == StrLenWrap(mem, a + 2)
            end == a + 2 + L + 1
        IN  /\ ~crashed
            /\ out.kind = "str"
            /\ out.text = StrAtWrap(mem, a + 2, L)
            /\ Mask20(pc) = (end + (end % 2)) % MEMORY_SIZE
            /\ prog.name = "stdout_str" =>
                  mem_r16(mem, pc) = make_instr_imm(OP_MOVI, 0, 1)

\* C16: after every instruction that writes a register (MOV, MOVI, POP, LOAD,
\* ADD, SUB, AND, OR, XOR and a STDIN number read that parsed) Zero is set
\* exactly when the register written is 0 and Sign is its bit 15.
C16_ZeroSign ==
    [][LET op == last'.op
           w == IF op \in {"MOV", "MOVI", "POP"}
                THEN Dst(last'.instr) ELSE Src(last'.instr)
       IN  (/\ steps' = steps + 1
            /\ \/ op \in {"MOV", "MOVI", "POP", "LOAD", "ADD", "SUB", "AND", "OR", "XOR"}
               \/ op = "STDIN" /\ Dst(last'.instr) # 0 /\ out'.kind = "scanned")
           => /\ ZeroSet(flags') = (regs'[w] = 0)
              /\ SignSet(flags') = (regs'[w] >= 32768)]_vars

\* the number 32768 was read: Sign set, Zero clear
C16_Witness ==
    /\ last.op = "STDIN"
    /\ out.kind = "scanned"
    /\ regs[Src(last.instr)] = 32768
    /\ SignSet(flags)
    /\ ~ZeroSet(flags)

\* C17: CMP dst, src stores no result: the registers, sp, memory and Overflow
\* stay as they were; with a and b the two register values, Carry is set
\* exactly when a < b, Zero exactly when a = b, and Sign is bit 15 of a - b
\* modulo 2^16.
C17_Cmp ==
    [][Executes("CMP") =>
          LET a == regs[Dst(last'.instr)]
              b == regs[Src(last'.instr)]
          IN  /\ regs' = regs
              /\ sp' = sp
              /\ mem' = mem
              /\ OverflowSet(flags') = OverflowSet(flags)
              /\ CarrySet(flags') = (a < b)
              /\ ZeroSet(flags') = (a = b)
              /\ SignSet(flags') = (((a + 65536 - b) % 65536) >= 32768)]_vars

\* CMP 5, 32767 after 0x7FFF + 1 had set Overflow: Carry and Sign set, Overflow kept
C17_Witness ==
    /\ last.op = "CMP"
    /\ prog.name = "prior"
    /\ regs[0] = 5
    /\ regs[1] = 32767
    /\ CarrySet(flags)
    /\ SignSet(flags)
    /\ ~ZeroSet(flags)
    /\ OverflowSet(flags)

\* C18: AND, OR and XOR store in reg1 the bitwise and, or, exclusive or of
\* reg1 and reg2, recompute Zero and Sign from it, and leave Carry and Overflow
\* as they were.
C18_Logic ==
    [][(Executes("AND") \/ Executes("OR") \/ Executes("XOR")) =>
          LET r1 == Src(last'.instr)
              a == regs[r1]
              b == regs[Reg2(last'.instr)]
              v == regs'[r1]
          IN  /\ \A i \in 0 .. 15 :
                    Bit(v, i) = CASE last'.op = "AND" -> Bit(a, i) * Bit(b, i)
                                  [] last'.op = "OR" -> Bit(a, i) + Bit(b, i) - Bit(a, i) * Bit(b, i)
                                  [] last'.op = "XOR" -> (Bit(a, i) + Bit(b, i)) % 2
              /\ v \in 0 .. 65535
              /\ \A q \in 0 .. NUMS_R - 1 : q # r1 => regs'[q] = regs[q]
              /\ ZeroSet(flags') = (v = 0)
              /\ SignSet(flags') = (Bit(v, 15) = 1)
              /\ CarrySet(flags') = CarrySet(flags)
              /\ OverflowSet(flags') = OverflowSet(flags)]_vars

\* 0x8000 XOR 0x7FFF = 0xFFFF with Overflow set and Carry clear before and after
C18_Witness ==
    /\ last.op = "XOR"
    /\ last.regs[0] = 32768
    /\ last.regs[1] = 32767
    /\ regs[0] = 65535
    /\ OverflowSet(flags)
    /\ ~CarrySet(flags)
    /\ SignSet(flags)

\* C19: the stack pointer is even in every reachable state: it starts at
\* MEMORY_SIZE - 2 and only moves by 2, down in a push and up in a pop.
C19_SpEven == sp.lo % 2 = 0

\* a POP has moved sp up to 2^20 and a PUSH has moved it down again
C19_Witness ==
    /\ last.op = "PUSH"
    /\ last.sp = U32(MEMORY_SIZE)
    /\ sp = U32(MEMORY_SIZE - 2)
    /\ steps >= 2

\* C20: an instruction with opcode EXT never halts the machine: each of its
\* eight extended opcodes is defined, for every instruction word, so the
\* unknown-extended-opcode branch is never taken; a running machine becomes
\* halted only by HALT or by a word whose top-level opcode is undefined.
C20_ExtNeverHalts ==
    [][/\ ExtWordsRecognized
       /\ (steps' = steps + 1 /\ Opcode(last'.instr) = OP_EXT) =>
             /\ halted' = halted
             /\ last'.op # "UNKNOWN"
             /\ out'.kind # "unknown_ext"
       /\ (~halted /\ halted') =>
             \/ last'.op = "HALT" /\ Opcode(last'.instr) = OP_HALT
             \/ last'.op = "UNKNOWN" /\ Opcode(last'.instr) \in {14, 15}]_vars

\* an XOR has run and the machine is still running
C20_Witness ==
    /\ last.op = "XOR"
    /\ Opcode(last.instr) = OP_EXT
    /\ Dst(last.instr) = EXT_XOR
    /\ ~halted
    /\ out.kind = "none"

====
